---- MODULE Spec2Model ----
(***************************************************************************)
(* State-machine model of the toolbox commands in                          *)
(*   src/src/toolbox/commands/lint.py   (lint pipeline and its checks)     *)
(*   src/src/toolbox/commands/test.py   (test pipeline, coverage report)   *)
(*                                                                         *)
(* One behaviour is one invocation of one command, and for `lint` a second *)
(* invocation on the same source tree after the first has ended.  The      *)
(* external tools (pylint, pycodestyle, pydocstyle, pytest, coverage) are  *)
(* the environment: their exit status and what they write are chosen       *)
(* nondeterministically; a lint tool run again on the unchanged source     *)
(* does what it did the first time.                                        *)
(* Strings that the code builds (file names, tool output) are sequences of *)
(* tokens, so that name.replace() and the TOTAL regular expression are     *)
(* computed, not assumed.                                                  *)
(***************************************************************************)
EXTENDS Integers, Sequences, FiniteSets, TLC

VARIABLES
    cmd,                \* the command the process was started with
    test_types,         \* toolbox.test_types: configured category names
    tests_directory,    \* toolbox.tests_directory is configured (truthy)
    reports_directory,  \* the reports directory exists on disk
    files,              \* the file system under the reports directory: path -> content
    pc,                 \* position of the single thread of control
    queue,              \* commands the pipeline still has to forward to
    call,               \* which run_pylint call of lint_pylint is active (1 or 2)
    name,               \* _run_tests: the `name` argument
    ti,                 \* coverage_report: index of the loop over test_types
    coverage_files,     \* coverage_report: the list `coverage_files`
    stdout,             \* _get_total_coverage: its local `output` (<<>> outside the function)
    exc,                \* the exception in flight (None when there is none)
    exitCode,           \* process exit code, -1 while the process runs
    log,                \* everything printed, run, copied or opened, in order
    answers,            \* what each lint tool did on this source tree: check -> outcome
    first               \* reports and exit code the first invocation ended with (<<>> during it)

vars == <<cmd, test_types, tests_directory, reports_directory, files, pc, queue,
          call, name, ti, coverage_files, stdout, exc, exitCode, log, answers, first>>

(***************************************************************************)
(* Bounds of the model.                                                    *)
(***************************************************************************)
\* exit statuses of the external tools range over 0..MaxRc
MaxRc == 2
\* at most MaxTypes category names are configured in test_types
MaxTypes == 2
\* the output of `coverage report` has at most MaxOut tokens
MaxOut == 3

(***************************************************************************)
(* Exceptions.                                                             *)
(***************************************************************************)
None == [type |-> "None", code |-> 0]
UnexpectedExit(rc) == [type |-> "UnexpectedExit", code |-> rc]
RuntimeError == [type |-> "RuntimeError", code |-> 0]
Exit(code) == [type |-> "Exit", code |-> code]

\* invoke's Context.run with the default warn=False: a non-zero exit status of
\* the command raises, a zero one returns.
ctx_run(rc) == IF rc = 0 THEN None ELSE UnexpectedExit(rc)

(***************************************************************************)
(* The log: one record per observable effect.                              *)
(*   k  the kind of effect, w the function that caused it (with a suffix   *)
(*   for the run_pylint call), a its argument (a token sequence), rc the   *)
(*   exit status for k = "run" and 0 otherwise.                            *)
(***************************************************************************)
Ev(k, w, a, rc) == [k |-> k, w |-> w, a |-> a, rc |-> rc]

Range(s) == {s[i] : i \in DOMAIN s}

exists(path) == path \in DOMAIN files

Write(fs, path, content) == [p \in (DOMAIN fs) \cup {path} |-> IF p = path THEN content ELSE fs[p]]

Remove(fs, paths) == [p \in (DOMAIN fs) \ paths |-> fs[p]]

\* toolbox.utils (not part of the sources at hand): prints a header line
print_header(w, text) == <<Ev("print_header", w, text, 0)>>

\* toolbox.utils: read(relativeName) -> text
read_contents(path) == files[path]

\* toolbox.utils: a presentation transform; empty input produces empty output
format_messages(w, messages) == IF messages = <<>> THEN <<>> ELSE <<Ev("format_messages", w, messages, 0)>>

\* toolbox.utils: creates the reports directory if absent, idempotent; existing
\* reports are untouched
ensure_reports_dir(w) == <<Ev("ensure_reports_dir", w, <<>>, 0)>>

(***************************************************************************)
(* Report files of the lint checks and what a tool may write to them.      *)
(***************************************************************************)
report_pydocstyle_fpath == <<"pydocstyle-report.log">>
report_pycodestyle_fpath == <<"pycodestyle-report.log">>

\* the arguments of the two run_pylint calls of lint_pylint
report_path(c) == IF c = 1 THEN <<"pylint-report.log">> ELSE <<"pylint-report-tests.log">>
source_dirs(c) == IF c = 1 THEN <<"source_directory">> ELSE <<"tests_directory">>
\* the configuration file as it would be if both sub-runs used the root one
pylintrc_fpath_root(c) == <<"root_directory", ".pylintrc">>
pylintrc_fpath(c) == IF c = 1 THEN <<"root_directory", ".pylintrc">> ELSE <<"tests_directory", ".pylintrc">>
pylint_w(c) == IF c = 1 THEN "run_pylint:source" ELSE "run_pylint:tests"

LintReports == {report_pydocstyle_fpath, report_pycodestyle_fpath, report_path(1), report_path(2)}

\* what a lint tool prints: nothing, or some messages
Contents == {<<>>, <<"messages">>}

\* a report left by an earlier invocation
OldReport == <<"old", "messages">>

(***************************************************************************)
(* Category names, coverage data files and their temporary copies.         *)
(***************************************************************************)
\* category names that may be configured; "unit" and "integration" are the
\* names test_unit and test_integration pass to _run_tests
Names == {<<"unit">>, <<"integration">>, <<"unit", "-copy">>}

\* reports_directory / f"coverage-{test_type}.dat"
coverage_dat(t) == <<"coverage-">> \o t \o <<".dat">>

\* reports_directory / f"coverage-{name}.xml"
coverage_xml(t) == <<"coverage-">> \o t \o <<".xml">>

\* str.replace(old, new) on token sequences: every occurrence is replaced
RECURSIVE replace(_, _, _)
replace(s, old, new) ==
    IF s = <<>> THEN <<>>
    ELSE (IF Head(s) = old THEN new ELSE <<Head(s)>>) \o replace(Tail(s), old, new)

\* coverage_dat.with_name(coverage_dat.name.replace(".dat", "-copy.dat"))
temp_copy(t) == replace(coverage_dat(t), ".dat", <<"-copy", ".dat">>)

coverage_dat_combined == <<"coverage", ".dat">>
report_index == <<"coverage-report/", "index.html">>

\* the data pytest records for category t
Data(t) == <<"data">> \o t

\* a combined data file left by an earlier invocation
OldCombined == <<"combined", "old">>

(***************************************************************************)
(* Commands and configurations.                                            *)
(***************************************************************************)
\* the pipeline as it would be with the style check first and pylint last
_COMMANDS_style_first == <<"lint_pycodestyle", "lint_pydocstyle", "lint_pylint">>

\* lint.py line 109
_COMMANDS == <<"lint_pylint", "lint_pycodestyle", "lint_pydocstyle">>

\* test_all as it would be with the coverage report ahead of the integration tests
TestAllCommands_report_early == <<"test_unit", "coverage_report", "test_integration">>

\* test.py lines 119-121: the three click_context.forward calls of test_all
TestAllCommands == <<"test_unit", "test_integration", "coverage_report">>

LintCmds == {"lint", "lint_pylint", "lint_pycodestyle", "lint_pydocstyle"}
TestCmds == {"test_all", "test_unit", "test_integration", "coverage_report", "coverage_open"}
Commands == LintCmds \cup TestCmds

\* lists of distinct category names, at most MaxTypes long
TypeLists ==
    {s \in UNION {[1..n -> Names] : n \in 0..MaxTypes} :
        \A i, j \in DOMAIN s : i # j => s[i] # s[j]}

DefaultTypes == <<<<"unit">>, <<"integration">>>>

InitialContent(p) ==
    IF p \in LintReports THEN OldReport
    ELSE IF p = coverage_dat_combined THEN OldCombined
    ELSE IF p = report_index THEN <<"html">> \o OldCombined
    ELSE Data(SubSeq(p, 2, Len(p) - 1))

\* the files an earlier invocation may have left for command c to find (of the
\* coverage data files, only those of configured categories are ever looked at)
Leftovers(c) ==
    IF c \in LintCmds THEN LintReports
    ELSE IF c = "coverage_open" THEN {report_index}
    ELSE IF c = "test_unit" THEN {coverage_dat(<<"unit">>)}
    ELSE IF c = "test_integration" THEN {coverage_dat(<<"integration">>)}
    ELSE {coverage_dat(t) : t \in Range(test_types)} \cup {coverage_dat_combined}

Init ==
    /\ cmd \in Commands
    /\ test_types \in (IF cmd \in {"test_all", "test_unit", "test_integration", "coverage_report"}
                       THEN TypeLists ELSE {DefaultTypes})
    /\ tests_directory \in (IF cmd \in {"test_all", "test_unit", "test_integration"}
                            THEN BOOLEAN ELSE {TRUE})
    /\ reports_directory \in BOOLEAN
    /\ \E S \in SUBSET Leftovers(cmd) :
          /\ ~reports_directory => S = {}
          /\ files = [p \in S |-> InitialContent(p)]
    /\ pc = "main"
    /\ queue = <<>>
    /\ call = 0
    /\ name = <<>>
    /\ ti = 0
    /\ coverage_files = <<>>
    /\ stdout = <<>>
    /\ exc = None
    /\ exitCode = -1
    /\ log = <<>>
    /\ answers = <<>>
    /\ first = <<>>

(***************************************************************************)
(* Dispatch: click runs the command; a pipeline forwards to its commands.  *)
(***************************************************************************)
\* lint(): header, then `for command in _COMMANDS: click_context.forward(command)`
lint ==
    /\ pc = "main" /\ cmd = "lint"
    /\ log' = log \o print_header("lint", <<"Linting">>)
    /\ queue' = _COMMANDS
    /\ pc' = "forward"
    /\ UNCHANGED <<answers, first, cmd, test_types, tests_directory, reports_directory, files, call,
                   name, ti, coverage_files, stdout, exc, exitCode>>

\* test_all(): header, then three click_context.forward calls
test_all ==
    /\ pc = "main" /\ cmd = "test_all"
    /\ log' = log \o print_header("test_all", <<"Linting">>)
    /\ queue' = TestAllCommands
    /\ pc' = "forward"
    /\ UNCHANGED <<answers, first, cmd, test_types, tests_directory, reports_directory, files, call,
                   name, ti, coverage_files, stdout, exc, exitCode>>

\* a command that is not a pipeline is run on its own
single ==
    /\ pc = "main" /\ cmd \notin {"lint", "test_all"}
    /\ queue' = <<cmd>>
    /\ pc' = "forward"
    /\ UNCHANGED <<answers, first, cmd, test_types, tests_directory, reports_directory, files, call,
                   name, ti, coverage_files, stdout, exc, exitCode, log>>

\* click_context.forward(command): the next command starts
forward ==
    /\ pc = "forward" /\ queue # <<>>
    /\ log' = Append(log, Ev("forward", Head(queue), <<>>, 0))
    /\ queue' = Tail(queue)
    /\ pc' = Head(queue)
    /\ UNCHANGED <<answers, first, cmd, test_types, tests_directory, reports_directory, files, call,
                   name, ti, coverage_files, stdout, exc, exitCode>>

\* a command returns normally to whoever forwarded to it
Return(w, printed) ==
    /\ pc' = "forward"
    /\ log' = log \o printed \o <<Ev("return", w, <<>>, 0)>>

\* an exception leaves the function that is running
Raise(printed) ==
    /\ pc' = "raise"
    /\ log' = log \o printed

\* every command was forwarded to and returned: the process exits with 0
finish ==
    /\ pc = "forward" /\ queue = <<>>
    /\ exitCode' = 0
    /\ pc' = "done"
    /\ UNCHANGED <<answers, first, cmd, test_types, tests_directory, reports_directory, files, queue,
                   call, name, ti, coverage_files, stdout, exc, log>>

\* exit status of the process when exception e leaves the command: the code of a
\* click Exit, and 1 for an exception nobody catches
ExitStatus(e) == IF e.type = "Exit" THEN e.code ELSE 1

\* an exception leaves the command (neither lint nor test_all catches anything):
\* the commands not yet forwarded to never start, and the process exits
propagate ==
    /\ pc = "raise"
    /\ exitCode' = ExitStatus(exc)
    /\ pc' = "done"
    /\ UNCHANGED <<answers, first, cmd, test_types, tests_directory, reports_directory, files, queue,
                   call, name, ti, coverage_files, stdout, exc, log>>

\* the user runs `lint` again after it has ended, the source tree unchanged:
\* a new process, with the reports directory as the first one left it
Rerun ==
    /\ pc = "done" /\ cmd = "lint" /\ first = <<>>
    /\ first' = [files |-> files, exitCode |-> exitCode]
    /\ pc' = "main"
    /\ queue' = <<>>
    /\ call' = 0
    /\ exc' = None
    /\ exitCode' = -1
    /\ log' = <<>>
    /\ UNCHANGED <<answers, cmd, test_types, tests_directory, reports_directory, files,
                   name, ti, coverage_files, stdout>>

(***************************************************************************)
(* Running a lint tool with its output redirected to a report file.        *)
(* Either the shell opens (creates or truncates) the report and the tool   *)
(* writes to it and exits with any status, or the shell cannot open the    *)
(* report: the tool does not run, the status is 1 and the file, if any, is *)
(* as it was.  The tools are deterministic: what a check's tool did on     *)
(* this source tree is kept in answers, and a second run does the same.    *)
(***************************************************************************)
Outcomes ==
    {[opened |-> TRUE, c |-> c, rc |-> rc] : c \in Contents, rc \in 0..MaxRc}
        \cup {[opened |-> FALSE, c |-> <<>>, rc |-> 1]}

\* the redirection as it would be with `>>` for `>`
Redirected_append(w, args, report) ==
    \E o \in Outcomes :
        /\ w \in DOMAIN answers => o = answers[w]
        /\ answers' = [x \in DOMAIN answers \cup {w} |-> IF x = w THEN o ELSE answers[x]]
        /\ files' = IF o.opened
                    THEN Write(files, report, (IF exists(report) THEN files[report] ELSE <<>>) \o o.c)
                    ELSE files
        /\ exc' = ctx_run(o.rc)
        /\ log' = log \o <<Ev("ctx.run", w, args, 0), Ev("run", w, report, o.rc)>>

\* ctx.run(f"<tool> <args> > {report}"): the command line, then what came of it
Redirected(w, args, report) ==
    \E o \in Outcomes :
        /\ w \in DOMAIN answers => o = answers[w]
        /\ answers' = [x \in DOMAIN answers \cup {w} |-> IF x = w THEN o ELSE answers[x]]
        /\ files' = IF o.opened THEN Write(files, report, o.c) ELSE files
        /\ exc' = ctx_run(o.rc)
        /\ log' = log \o <<Ev("ctx.run", w, args, 0), Ev("run", w, report, o.rc)>>

(***************************************************************************)
(* lint_pydocstyle                                                         *)
(***************************************************************************)
\* lines 24-28: header, ensure_reports_dir
lint_pydocstyle ==
    /\ pc = "lint_pydocstyle"
    /\ log' = log \o print_header("lint_pydocstyle", <<"documentation style">>)
                  \o ensure_reports_dir("lint_pydocstyle")
    /\ reports_directory' = TRUE
    /\ pc' = "lint_pydocstyle_try"
    /\ UNCHANGED <<answers, first, cmd, test_types, tests_directory, files, queue, call, name, ti,
                   coverage_files, stdout, exc, exitCode>>

\* lines 30-31: try: ctx.run("pydocstyle ... > report")
lint_pydocstyle_try ==
    /\ pc = "lint_pydocstyle_try"
    /\ Redirected("lint_pydocstyle", <<"pydocstyle", "source_directory">>, report_pydocstyle_fpath)
    /\ pc' = "lint_pydocstyle_finally"
    /\ UNCHANGED <<first, cmd, test_types, tests_directory, reports_directory, queue, call,
                   name, ti, coverage_files, stdout, exitCode>>

\* lines 33-34: if os.path.exists(report): format_messages(read_contents(report))
pydocstyle_finally ==
    IF exists(report_pydocstyle_fpath)
    THEN format_messages("lint_pydocstyle", read_contents(report_pydocstyle_fpath))
    ELSE <<>>

\* lines 32-34: the finally block runs whether or not the tool failed; then the
\* exception, if any, goes on
lint_pydocstyle_finally ==
    /\ pc = "lint_pydocstyle_finally"
    /\ IF exc = None
       THEN Return("lint_pydocstyle", pydocstyle_finally)
       ELSE Raise(pydocstyle_finally)
    /\ UNCHANGED <<answers, first, cmd, test_types, tests_directory, reports_directory, files, queue,
                   call, name, ti, coverage_files, stdout, exc, exitCode>>

(***************************************************************************)
(* lint_pycodestyle                                                        *)
(***************************************************************************)
\* lines 47-52: header, ensure_reports_dir
lint_pycodestyle ==
    /\ pc = "lint_pycodestyle"
    /\ log' = log \o print_header("lint_pycodestyle", <<"code style (PEP8)">>)
                  \o ensure_reports_dir("lint_pycodestyle")
    /\ reports_directory' = TRUE
    /\ pc' = "lint_pycodestyle_try"
    /\ UNCHANGED <<answers, first, cmd, test_types, tests_directory, files, queue, call, name, ti,
                   coverage_files, stdout, exc, exitCode>>

\* lines 54-59: try: ctx.run("pycodestyle ... > report")
lint_pycodestyle_try ==
    /\ pc = "lint_pycodestyle_try"
    /\ Redirected("lint_pycodestyle", <<"pycodestyle", "source_directory", "tests_directory">>, report_pycodestyle_fpath)
    /\ pc' = "lint_pycodestyle_finally"
    /\ UNCHANGED <<first, cmd, test_types, tests_directory, reports_directory, queue, call,
                   name, ti, coverage_files, stdout, exitCode>>

\* lines 66-67: if os.path.exists(report): format_messages(read_contents(report))
pycodestyle_finally ==
    IF exists(report_pycodestyle_fpath)
    THEN format_messages("lint_pycodestyle", read_contents(report_pycodestyle_fpath))
    ELSE <<>>

\* lines 65-67: the finally block, then the exception, if any, goes on
lint_pycodestyle_finally ==
    /\ pc = "lint_pycodestyle_finally"
    /\ IF exc = None
       THEN Return("lint_pycodestyle", pycodestyle_finally)
       ELSE Raise(pycodestyle_finally)
    /\ UNCHANGED <<answers, first, cmd, test_types, tests_directory, reports_directory, files, queue,
                   call, name, ti, coverage_files, stdout, exc, exitCode>>

(***************************************************************************)
(* run_pylint and lint_pylint                                              *)
(***************************************************************************)
\* lines 92-100: header, then the first run_pylint call (source tree)
lint_pylint ==
    /\ pc = "lint_pylint"
    /\ log' = log \o print_header("lint_pylint", <<"pylint">>)
    /\ call' = 1
    /\ pc' = "run_pylint"
    /\ UNCHANGED <<answers, first, cmd, test_types, tests_directory, reports_directory, files, queue,
                   name, ti, coverage_files, stdout, exc, exitCode>>

\* the sub-run as it would start without line 72
run_pylint_no_ensure ==
    /\ pc = "run_pylint"
    /\ log' = log \o print_header(pylint_w(call), source_dirs(call))
    /\ pc' = "run_pylint_try"
    /\ UNCHANGED <<answers, first, cmd, test_types, tests_directory, reports_directory, files, queue,
                   call, name, ti, coverage_files, stdout, exc, exitCode>>

\* lines 71-72: header, ensure_reports_dir
run_pylint ==
    /\ pc = "run_pylint"
    /\ log' = log \o print_header(pylint_w(call), source_dirs(call))
                  \o ensure_reports_dir(pylint_w(call))
    /\ reports_directory' = TRUE
    /\ pc' = "run_pylint_try"
    /\ UNCHANGED <<answers, first, cmd, test_types, tests_directory, files, queue, call, name, ti,
                   coverage_files, stdout, exc, exitCode>>

\* lines 74-75: try: ctx.run("pylint --rcfile ... > report_path")
run_pylint_try ==
    /\ pc = "run_pylint_try"
    /\ Redirected(pylint_w(call),
                  <<"pylint", "--rcfile">> \o pylintrc_fpath(call) \o source_dirs(call),
                  report_path(call))
    /\ pc' = IF exc' = None THEN "run_pylint_else" ELSE "run_pylint_except"
    /\ UNCHANGED <<first, cmd, test_types, tests_directory, reports_directory, queue, call,
                   name, ti, coverage_files, stdout, exitCode>>

\* run_pylint's handler as it would be if it re-raised without the dump
pylint_except_silent == <<>>

\* lines 77-78: if os.path.exists(report_path): print(read_contents(report_path))
pylint_except ==
    IF exists(report_path(call))
    THEN <<Ev("print", pylint_w(call), read_contents(report_path(call)), 0)>>
    ELSE <<>>

\* lines 76-79: except: dump the report, then `raise runtime_error`
run_pylint_except ==
    /\ pc = "run_pylint_except"
    /\ Raise(pylint_except)
    /\ UNCHANGED <<answers, first, cmd, test_types, tests_directory, reports_directory, files, queue,
                   call, name, ti, coverage_files, stdout, exc, exitCode>>

\* lines 80-81: else: cprint("No issues found."); run_pylint returns to
\* lint_pylint, which makes its second call (lines 101-106) or returns
run_pylint_else ==
    /\ pc = "run_pylint_else"
    /\ IF call = 1
       THEN /\ log' = Append(log, Ev("cprint", pylint_w(call), <<"No issues found.">>, 0))
            /\ call' = 2
            /\ pc' = "run_pylint"
       ELSE /\ Return("lint_pylint", <<Ev("cprint", pylint_w(call), <<"No issues found.">>, 0)>>)
            /\ call' = call
    /\ UNCHANGED <<answers, first, cmd, test_types, tests_directory, reports_directory, files, queue,
                   name, ti, coverage_files, stdout, exc, exitCode>>

(***************************************************************************)
(* handle_invoke_exceptions, _run_tests, test_unit, test_integration       *)
(***************************************************************************)
\* toolbox.utils decorator: a failure of an invoked command becomes an exit of
\* the process with a non-zero code; any other exception passes through
handle_invoke_exceptions(e) == IF e.type = "UnexpectedExit" THEN Exit(e.code) ELSE e

\* lines 42-43
test_unit ==
    /\ pc = "test_unit"
    /\ name' = <<"unit">>
    /\ pc' = "_run_tests"
    /\ UNCHANGED <<answers, first, cmd, test_types, tests_directory, reports_directory, files, queue,
                   call, ti, coverage_files, stdout, exc, exitCode, log>>

\* lines 50-52
test_integration ==
    /\ pc = "test_integration"
    /\ name' = <<"integration">>
    /\ pc' = "_run_tests"
    /\ UNCHANGED <<answers, first, cmd, test_types, tests_directory, reports_directory, files, queue,
                   call, ti, coverage_files, stdout, exc, exitCode, log>>

\* the command that called _run_tests with this name
TestCommand(n) == IF n = <<"unit">> THEN "test_unit" ELSE "test_integration"

\* the guard as it would be with `and` for `or`
skip_and(n) == n \notin Range(test_types) /\ ~tests_directory

\* line 20: name not in toolbox.test_types or not toolbox.tests_directory
skip(n) == n \notin Range(test_types) \/ ~tests_directory

\* lines 20-24: return at once when the category is skipped; otherwise header
\* and ensure_reports_dir
_run_tests ==
    /\ pc = "_run_tests"
    /\ IF skip(name)
       THEN /\ Return(TestCommand(name), <<>>)
            /\ reports_directory' = reports_directory
       ELSE /\ log' = log \o print_header("_run_tests", <<"Running">> \o name \o <<"tests">>)
                          \o ensure_reports_dir("_run_tests")
            /\ reports_directory' = TRUE
            /\ pc' = "_run_tests_run"
    /\ UNCHANGED <<answers, first, cmd, test_types, tests_directory, files, queue, call, name, ti,
                   coverage_files, stdout, exc, exitCode>>

\* what pytest leaves behind: with --cov it writes the data file (COVERAGE_FILE)
\* and the xml report when it gets to its end, which a run that fails may not
Pytest(n, written) ==
    IF written
    THEN Write(Write(files, coverage_dat(n), Data(n)), coverage_xml(n), <<"xml">> \o n)
    ELSE files

\* the run as it would be with ctx.run(..., warn=True): a failing pytest
\* returns like a passing one
_run_tests_run_warn ==
    /\ pc = "_run_tests_run"
    /\ \E rc \in 0..MaxRc, written \in BOOLEAN :
          /\ rc = 0 => written
          /\ files' = Pytest(name, written)
          /\ Return(TestCommand(name), <<Ev("run", "_run_tests", name, rc)>>)
    /\ UNCHANGED <<answers, first, cmd, test_types, tests_directory, reports_directory, queue, call,
                   name, ti, coverage_files, stdout, exc, exitCode>>

\* lines 25-35: ctx.run(pytest ...); a failure goes through
\* handle_invoke_exceptions, success returns
_run_tests_run ==
    /\ pc = "_run_tests_run"
    /\ \E rc \in 0..MaxRc, written \in BOOLEAN :
          /\ rc = 0 => written
          /\ files' = Pytest(name, written)
          /\ exc' = handle_invoke_exceptions(ctx_run(rc))
          /\ IF rc = 0
             THEN Return(TestCommand(name), <<Ev("run", "_run_tests", name, rc)>>)
             ELSE Raise(<<Ev("run", "_run_tests", name, rc)>>)
    /\ UNCHANGED <<answers, first, cmd, test_types, tests_directory, reports_directory, queue, call,
                   name, ti, coverage_files, stdout, exitCode>>

(***************************************************************************)
(* _get_total_coverage: re.search(r"TOTAL.*?([\d.]+%)", output)            *)
(***************************************************************************)
\* tokens of the output of `coverage report`: the word TOTAL, a character of
\* the class [\d.], a percent sign, any other character, a line break
Alphabet == {"TOTAL", "9", "%", " ", "\n"}

Outputs == UNION {[1..n -> Alphabet] : n \in 0..MaxOut}

\* [\d.]
IsDigitDot(c) == c = "9"

\* the end of the longest run of [\d.] that starts at q ([\d.]+ is greedy)
RunEnd(out, q) ==
    CHOOSE r \in q..Len(out) :
        /\ \A j \in q..r : IsDigitDot(out[j])
        /\ r = Len(out) \/ ~IsDigitDot(out[r + 1])

\* the positions where the group ([\d.]+%) can start for a match that begins
\* with the TOTAL at position i: `.` does not match a line break, and the run
\* of [\d.] must be followed by the percent sign at once
GroupStarts(out, i) ==
    {q \in (i + 1)..Len(out) :
        /\ \A j \in (i + 1)..(q - 1) : out[j] # "\n"
        /\ IsDigitDot(out[q])
        /\ RunEnd(out, q) < Len(out)
        /\ out[RunEnd(out, q) + 1] = "%"}

Min(S) == CHOOSE x \in S : \A y \in S : x <= y

\* the search as it would be with the pattern r"TOTAL.*?([\d.]+)", which does
\* not ask for the percent sign
search_no_percent(out) ==
    LET from(i) == {q \in (i + 1)..Len(out) :
                        /\ \A j \in (i + 1)..(q - 1) : out[j] # "\n"
                        /\ IsDigitDot(out[q])}
        starts == {i \in DOMAIN out : out[i] = "TOTAL" /\ from(i) # {}}
    IN  IF starts = {} THEN <<>>
        ELSE LET q == Min(from(Min(starts)))
             IN  SubSeq(out, q, q)

\* re.search: the leftmost TOTAL from which the pattern matches, with the
\* shortest .*? ; the result is group(1), or <<>> when match is None
search(out) ==
    LET starts == {i \in DOMAIN out : out[i] = "TOTAL" /\ GroupStarts(out, i) # {}}
    IN  IF starts = {} THEN <<>>
        ELSE LET q == Min(GroupStarts(out, Min(starts)))
             IN  SubSeq(out, q, RunEnd(out, q) + 1)

\* the argument as it would be if line 107 passed the last category's data file
coverage_dat_arg_category ==
    IF ti <= Len(test_types) THEN coverage_dat(test_types[ti])
    ELSE IF test_types = <<>> THEN coverage_dat_combined
    ELSE coverage_dat(test_types[Len(test_types)])

\* the data file _get_total_coverage is called for: the category's inside the
\* loop (line 94), the combined one after it (line 107)
coverage_dat_arg == IF ti <= Len(test_types) THEN coverage_dat(test_types[ti]) ELSE coverage_dat_combined

\* lines 57-62: ctx.run("coverage report", hide=True).stdout
_get_total_coverage ==
    /\ pc = "_get_total_coverage"
    /\ \E rc \in 0..MaxRc, out \in Outputs :
          /\ rc # 0 => out = <<>>
          /\ stdout' = out
          /\ exc' = handle_invoke_exceptions(ctx_run(rc))
          /\ log' = Append(log, Ev("run", "coverage report", coverage_dat_arg, rc))
          /\ pc' = IF rc = 0 THEN "_get_total_coverage_match" ELSE "raise"
    /\ UNCHANGED <<answers, first, cmd, test_types, tests_directory, reports_directory, files, queue,
                   call, name, ti, coverage_files, exitCode>>

\* lines 64-65: if match is None: raise RuntimeError
_get_total_coverage_raise ==
    /\ pc = "_get_total_coverage_match"
    /\ search(stdout) = <<>>
    /\ exc' = handle_invoke_exceptions(RuntimeError)
    /\ stdout' = <<>>
    /\ pc' = "raise"
    /\ UNCHANGED <<answers, first, cmd, test_types, tests_directory, reports_directory, files, queue,
                   call, name, ti, coverage_files, exitCode, log>>

(***************************************************************************)
(* coverage_report                                                         *)
(***************************************************************************)
\* lines 77-84: header, ensure_reports_dir, coverage_files = []
coverage_report ==
    /\ pc = "coverage_report"
    /\ log' = log \o print_header("coverage_report", <<"Generating coverage report">>)
                  \o ensure_reports_dir("coverage_report")
    /\ reports_directory' = TRUE
    /\ coverage_files' = <<>>
    /\ ti' = 1
    /\ pc' = "coverage_report_for"
    /\ UNCHANGED <<answers, first, cmd, test_types, tests_directory, files, queue, call, name, stdout,
                   exc, exitCode>>

\* the loop as it would be if a missing data file were an error
coverage_report_missing_abort ==
    /\ pc = "coverage_report_for" /\ ti <= Len(test_types)
    /\ ~exists(coverage_dat(test_types[ti]))
    /\ log' = Append(log, Ev("secho", "coverage_report", test_types[ti], 0))
    /\ exc' = Exit(1)
    /\ pc' = "raise"
    /\ UNCHANGED <<answers, first, cmd, test_types, tests_directory, reports_directory, files, queue,
                   call, name, ti, coverage_files, stdout, exitCode>>

\* lines 85-92: the category's data file does not exist: a warning, and on to
\* the next category
coverage_report_missing ==
    /\ pc = "coverage_report_for" /\ ti <= Len(test_types)
    /\ ~exists(coverage_dat(test_types[ti]))
    /\ log' = Append(log, Ev("secho", "coverage_report", test_types[ti], 0))
    /\ ti' = ti + 1
    /\ UNCHANGED <<answers, first, cmd, test_types, tests_directory, reports_directory, files, pc,
                   queue, call, name, coverage_files, stdout, exc, exitCode>>

\* lines 85-94: the data file exists: _get_total_coverage is called for it
coverage_report_present ==
    /\ pc = "coverage_report_for" /\ ti <= Len(test_types)
    /\ exists(coverage_dat(test_types[ti]))
    /\ pc' = "_get_total_coverage"
    /\ UNCHANGED <<answers, first, cmd, test_types, tests_directory, reports_directory, files, queue,
                   call, name, ti, coverage_files, stdout, exc, exitCode, log>>

\* lines 94-98: print the category's percentage, copy its data file to
\* temp_copy, append the copy to coverage_files
coverage_report_copy ==
    /\ pc = "_get_total_coverage_match" /\ ti <= Len(test_types)
    /\ search(stdout) # <<>>
    /\ LET t == test_types[ti]
       IN  /\ log' = log \o <<Ev("print", "category", t \o <<":">> \o search(stdout), 0),
                              Ev("copy", "coverage_report", temp_copy(t), 0)>>
           /\ files' = Write(files, temp_copy(t), files[coverage_dat(t)])
           /\ coverage_files' = Append(coverage_files, temp_copy(t))
    /\ ti' = ti + 1
    /\ stdout' = <<>>
    /\ pc' = "coverage_report_for"
    /\ UNCHANGED <<answers, first, cmd, test_types, tests_directory, reports_directory, queue, call,
                   name, exc, exitCode>>

\* " ".join(coverage_files)
RECURSIVE join(_)
join(paths) ==
    IF paths = <<>> THEN <<>>
    ELSE IF Len(paths) = 1 THEN Head(paths)
    ELSE Head(paths) \o <<" ">> \o join(Tail(paths))

RECURSIVE Merged(_, _)
Merged(fs, paths) == IF paths = <<>> THEN <<>> ELSE fs[Head(paths)] \o Merged(fs, Tail(paths))

\* `coverage combine f1 f2 ...` can succeed only when it is given data files
\* that exist; it then writes the combined data file and erases its inputs.
\* When it fails the files are as they were.
CanCombine(paths) == paths # <<>> /\ \A i \in DOMAIN paths : exists(paths[i])

Combine(paths, ok) ==
    IF ok
    THEN Write(Remove(files, Range(paths)), coverage_dat_combined, <<"combined">> \o Merged(files, paths))
    ELSE files

\* `coverage html -d coverage-report/` needs the combined data file
Html(fs, ok) ==
    IF ok
    THEN Write(fs, report_index, <<"html">> \o fs[coverage_dat_combined])
    ELSE fs

\* lines 100-106: one ctx.run of a script of two commands, combine then html;
\* the shell runs both and the status of the script is that of the last one
coverage_report_combine ==
    /\ pc = "coverage_report_for" /\ ti > Len(test_types)
    /\ \E combined \in BOOLEAN, rendered \in BOOLEAN, rc \in 1..MaxRc :
          /\ combined => CanCombine(coverage_files)
          /\ rendered => coverage_dat_combined \in DOMAIN Combine(coverage_files, combined)
          /\ files' = Html(Combine(coverage_files, combined), rendered)
          /\ LET status == IF rendered THEN 0 ELSE rc
             IN  /\ exc' = handle_invoke_exceptions(ctx_run(status))
                 /\ log' = log \o <<Ev("run", "coverage combine", join(coverage_files), IF combined THEN 0 ELSE 1),
                                    Ev("run", "coverage html", <<"coverage-report/">>, status)>>
                 /\ pc' = IF status = 0 THEN "_get_total_coverage" ELSE "raise"
    /\ UNCHANGED <<answers, first, cmd, test_types, tests_directory, reports_directory, queue, call,
                   name, ti, coverage_files, stdout, exitCode>>

\* lines 107-112: print the combined percentage and where the report is
coverage_report_total ==
    /\ pc = "_get_total_coverage_match" /\ ti > Len(test_types)
    /\ search(stdout) # <<>>
    /\ Return("coverage_report", <<Ev("print", "total", search(stdout), 0),
                                   Ev("print", "refer", report_index, 0)>>)
    /\ stdout' = <<>>
    /\ UNCHANGED <<answers, first, cmd, test_types, tests_directory, reports_directory, files, queue,
                   call, name, ti, coverage_files, exc, exitCode>>

(***************************************************************************)
(* coverage_open                                                           *)
(***************************************************************************)
\* the command as it would be without the test of line 128
coverage_open_always ==
    /\ pc = "coverage_open"
    /\ Return("coverage_open", <<Ev("webbrowser.open", "coverage_open", report_index, 0)>>)
    /\ UNCHANGED <<answers, first, cmd, test_types, tests_directory, reports_directory, files, queue,
                   call, name, ti, coverage_files, stdout, exc, exitCode>>

\* lines 127-139
coverage_open ==
    /\ pc = "coverage_open"
    /\ IF ~exists(report_index)
       THEN /\ Raise(<<Ev("secho", "coverage_open", report_index, 0)>>)
            /\ exc' = Exit(1)
       ELSE /\ Return("coverage_open", <<Ev("webbrowser.open", "coverage_open", report_index, 0)>>)
            /\ exc' = exc
    /\ UNCHANGED <<answers, first, cmd, test_types, tests_directory, reports_directory, files, queue,
                   call, name, ti, coverage_files, stdout, exitCode>>

(***************************************************************************)
(* The specification.                                                      *)
(***************************************************************************)
Next ==
    \/ lint \/ test_all \/ single \/ forward \/ finish \/ propagate \/ Rerun
    \/ lint_pydocstyle \/ lint_pydocstyle_try \/ lint_pydocstyle_finally
    \/ lint_pycodestyle \/ lint_pycodestyle_try \/ lint_pycodestyle_finally
    \/ lint_pylint \/ run_pylint \/ run_pylint_try \/ run_pylint_except \/ run_pylint_else
    \/ test_unit \/ test_integration \/ _run_tests \/ _run_tests_run
    \/ _get_total_coverage \/ _get_total_coverage_raise
    \/ coverage_report \/ coverage_report_missing \/ coverage_report_present
    \/ coverage_report_copy \/ coverage_report_combine \/ coverage_report_total
    \/ coverage_open

Spec == Init /\ [][Next]_vars

(***************************************************************************)
(* Reading the log.                                                        *)
(***************************************************************************)
LintChecks == {"lint_pydocstyle", "lint_pycodestyle", "run_pylint:source", "run_pylint:tests"}

\* positions where command c was forwarded to (started)
Started(c) == {i \in DOMAIN log : log[i].k = "forward" /\ log[i].w = c}

\* every start of b comes after a start of a
StartsBefore(a, b) == \A j \in Started(b) : \E i \in Started(a) : i < j

\* positions where a tool was run
Runs == {i \in DOMAIN log : log[i].k = "run"}

\* the report of the lint check that made run i was dumped after the run
Dumped(i, content) ==
    \E j \in DOMAIN log :
        /\ j > i
        /\ log[j].k \in {"print", "format_messages"}
        /\ log[j].w = log[i].w
        /\ log[j].a = content

(***************************************************************************)
(* C1: for every lint check (pylint on the source tree, pylint on the      *)
(* tests tree, pycodestyle, pydocstyle): when the tool has exited non-zero *)
(* the failure propagates (an exception is in flight, and the process ends *)
(* with a non-zero code), and at the moment it leaves the check the report *)
(* file, if it exists, has been printed after the run (an empty report     *)
(* prints as nothing), while if it does not exist nothing was printed.     *)
(***************************************************************************)
C1_DumpBeforeFailurePropagates ==
    \A i \in Runs :
        (log[i].w \in LintChecks /\ log[i].rc # 0) =>
            /\ exc = UnexpectedExit(log[i].rc)
            /\ pc \in {"lint_pydocstyle_finally", "lint_pycodestyle_finally",
                        "run_pylint_except", "raise", "done"}
            /\ pc = "done" => exitCode # 0
            /\ pc \in {"raise", "done"} =>
                  IF exists(log[i].a)
                  THEN files[log[i].a] = <<>> \/ Dumped(i, files[log[i].a])
                  ELSE i = Len(log)

\* a lint tool has failed, its report exists and is not empty, and the failure
\* is leaving the check
C1_Witness ==
    /\ pc = "raise"
    /\ \E i \in Runs :
          /\ log[i].w = "run_pylint:tests"
          /\ log[i].rc # 0
          /\ exists(log[i].a)
          /\ files[log[i].a] = <<"messages">>
          /\ Dumped(i, <<"messages">>)

(***************************************************************************)
(* C2: in every run of `lint` all three checks are attempted, whatever the *)
(* exit status of the checks before them: when the process has ended, each *)
(* command of the pipeline was started.                                    *)
(***************************************************************************)
C2_AllLintChecksAttempted ==
    (cmd = "lint" /\ pc = "done") =>
        \A c \in {"lint_pylint", "lint_pycodestyle", "lint_pydocstyle"} : Started(c) # {}

(***************************************************************************)
(* C3: for every pipeline command and every single check command, the      *)
(* process exit code is 0 if and only if every tool that was run exited    *)
(* with status 0 and every percentage extraction found its pattern.        *)
(***************************************************************************)
C3_ExitZeroIffAllSucceeded ==
    (pc = "done" /\ cmd # "coverage_open") =>
        (exitCode = 0 <=> ((\A i \in Runs : log[i].rc = 0) /\ exc.type # "RuntimeError"))

(***************************************************************************)
(* C4: for every lint check, when the wrapped tool has exited with status  *)
(* 0, the next thing printed is the success indicator and the report file  *)
(* is not dumped.                                                          *)
(***************************************************************************)
C4_SuccessMeansIndicatorAndNoDump ==
    \A i \in Runs :
        (log[i].w \in LintChecks /\ log[i].rc = 0) =>
            /\ i < Len(log) => log[i + 1].k = "cprint"
            /\ \A j \in DOMAIN log :
                  ~(j > i /\ log[j].w = log[i].w /\ log[j].k \in {"print", "format_messages"})

(***************************************************************************)
(* C5 as stated: in every run of `lint` the style check starts before the  *)
(* docstring check and the docstring check before the static-analysis      *)
(* check.                                                                  *)
(***************************************************************************)
C5_StyleDocstringStatic ==
    cmd = "lint" =>
        /\ StartsBefore("lint_pycodestyle", "lint_pydocstyle")
        /\ StartsBefore("lint_pydocstyle", "lint_pylint")

(***************************************************************************)
(* C5 amended: in every run of `lint` the static-analysis check starts     *)
(* first, the style check starts only after it, and the docstring check    *)
(* only after the style check; no check starts twice.                      *)
(***************************************************************************)
C5_StaticStyleDocstring ==
    cmd = "lint" =>
        /\ StartsBefore("lint_pylint", "lint_pycodestyle")
        /\ StartsBefore("lint_pycodestyle", "lint_pydocstyle")
        /\ \A c \in LintCmds : Cardinality(Started(c)) <= 1
        /\ Started("lint") = {}

\* a run of `lint` in which all three checks were started
C5_Witness ==
    /\ cmd = "lint"
    /\ Started("lint_pylint") # {}
    /\ Started("lint_pycodestyle") # {}
    /\ Started("lint_pydocstyle") # {}

(***************************************************************************)
(* C6: `test_all` starts unit tests, then integration tests, then coverage *)
(* aggregation, never anything else and never out of this order, and a     *)
(* step starts only when the step before it has returned.                  *)
(***************************************************************************)
IsForward(e) == e.k = "forward"

C6_TestPipelineOrder ==
    cmd = "test_all" =>
        LET fw == SelectSeq(log, IsForward)
            order == <<"test_unit", "test_integration", "coverage_report">>
        IN  /\ Len(fw) <= 3
            /\ \A n \in DOMAIN fw : fw[n].w = order[n]
            /\ \A n \in DOMAIN fw : n > 1 =>
                  \A j \in Started(order[n]) :
                      log[j - 1].k = "return" /\ log[j - 1].w = order[n - 1]

\* a run of `test_all` in which both test runs were made and the coverage
\* aggregation was started
C6_Witness ==
    /\ cmd = "test_all"
    /\ Started("coverage_report") # {}
    /\ \E i, j \in Runs :
          /\ log[i].w = "_run_tests" /\ log[i].a = <<"unit">>
          /\ log[j].w = "_run_tests" /\ log[j].a = <<"integration">>

(***************************************************************************)
(* C7: a test category that is not in the configured list, or that is run  *)
(* when no tests directory is configured, is skipped silently: the step    *)
(* returns at once with nothing printed, no tool run and no exception,     *)
(* nothing on disk changes, a single test command then exits with 0 and    *)
(* `test_all` goes on to its next step.                                    *)
(***************************************************************************)
NameOf(c) == IF c = "test_unit" THEN <<"unit">> ELSE <<"integration">>

NotToBeRun(c) == (\A i \in DOMAIN test_types : test_types[i] # NameOf(c)) \/ ~tests_directory

C7_SkipIsSilent ==
    /\ [](\A c \in {"test_unit", "test_integration"} : \A j \in Started(c) :
            NotToBeRun(c) =>
                /\ j = Len(log) => pc \in {c, "_run_tests"} /\ exc = None
                /\ j < Len(log) => log[j + 1] = Ev("return", c, <<>>, 0)
                /\ (cmd = "test_all" /\ j + 1 < Len(log)) =>
                      /\ log[j + 2].k = "forward"
                      /\ log[j + 2].w = (IF c = "test_unit" THEN "test_integration" ELSE "coverage_report")
                /\ (cmd = c /\ pc = "done") => exitCode = 0)
    /\ [][\A c \in {"test_unit", "test_integration"} :
            (pc \in {c, "_run_tests"} /\ NotToBeRun(c) /\ Started(c) # {} /\ Len(log) \in Started(c)) =>
                /\ files' = files
                /\ reports_directory' = reports_directory]_vars

\* `test_all` has skipped the unit tests, which are not configured, and has
\* gone on to the integration tests, which it ran
C7_Witness ==
    /\ cmd = "test_all"
    /\ tests_directory
    /\ \A i \in DOMAIN test_types : test_types[i] # <<"unit">>
    /\ \E j \in Started("test_unit") : j < Len(log) /\ log[j + 1] = Ev("return", "test_unit", <<>>, 0)
    /\ \E i \in Runs : log[i].w = "_run_tests" /\ log[i].a = <<"integration">>

(***************************************************************************)
(* C8: in coverage_report a configured category whose data file is absent  *)
(* gets a warning and nothing else (no report run, no copy), and the       *)
(* warning aborts nothing: no exception is raised by it, the next thing    *)
(* that happens is the next category or the combine step, and unless a     *)
(* later category's report fails, every configured category is handled and *)
(* combine and html are run, followed, when the script succeeds, by the    *)
(* report over the combined data file.                                     *)
(***************************************************************************)
Warned == {j \in DOMAIN log : log[j].k = "secho" /\ log[j].w = "coverage_report"}

\* after position j the report of a category failed, or its output did not
\* parse
CategoryFailedAfter(j) ==
    \E i \in Runs :
        /\ i > j
        /\ log[i].w = "coverage report"
        /\ log[i].a # <<"coverage", ".dat">>
        /\ log[i].rc # 0 \/ (i = Len(log) /\ exc.type = "RuntimeError")

C8_AbsentCategoryIsSkipped ==
    \A j \in Warned :
        /\ \A i \in DOMAIN log :
              ~(log[i].w = "coverage report" /\ log[i].a = <<"coverage-">> \o log[j].a \o <<".dat">>)
        /\ \A i \in DOMAIN log :
              ~(log[i].k = "copy" /\ log[i].a = <<"coverage-">> \o log[j].a \o <<"-copy", ".dat">>)
        /\ j = Len(log) => pc \in {"coverage_report_for", "_get_total_coverage"} /\ exc = None
        /\ j < Len(log) =>
              \/ log[j + 1].k = "secho" /\ log[j + 1].w = "coverage_report"
              \/ log[j + 1].k = "run" /\ log[j + 1].w \in {"coverage report", "coverage combine"}
        /\ (pc = "done" /\ ~CategoryFailedAfter(j)) =>
              /\ \A n \in DOMAIN test_types :
                    \E i \in DOMAIN log :
                        /\ log[i].w = "coverage_report"
                        /\ \/ log[i].k = "secho" /\ log[i].a = test_types[n]
                           \/ log[i].k = "copy" /\ log[i].a = <<"coverage-">> \o test_types[n] \o <<"-copy", ".dat">>
              /\ \E i \in Runs :
                    /\ i > j /\ i < Len(log)
                    /\ log[i].w = "coverage combine"
                    /\ log[i + 1].w = "coverage html"
                    /\ log[i + 1].rc = 0 =>
                          /\ i + 1 < Len(log)
                          /\ log[i + 2].w = "coverage report"
                          /\ log[i + 2].a = <<"coverage", ".dat">>

\* an aggregation that warned about one category, copied another, and went
\* on to print the combined percentage
C8_Witness ==
    /\ pc = "done" /\ exitCode = 0
    /\ Warned # {}
    /\ \E j \in Warned : \E i \in DOMAIN log : i > j /\ log[i].k = "copy"
    /\ \E i \in DOMAIN log : log[i].k = "print" /\ log[i].w = "total"

(***************************************************************************)
(* C9: whenever the output of `coverage report` (for a category or for the *)
(* combined data file) has no line with TOTAL followed later on that line  *)
(* by a percentage token, the extraction raises RuntimeError, and that is  *)
(* fatal: nothing is printed, run or written afterwards and the process    *)
(* ends with a non-zero exit code.                                         *)
(***************************************************************************)
\* a line with the word TOTAL followed, later on the same line, by a run of
\* [\d.] characters and a percent sign
HasTotalRow(out) ==
    \E i, q, r \in DOMAIN out :
        /\ i < q /\ q <= r /\ r < Len(out)
        /\ out[i] = "TOTAL"
        /\ \A j \in (i + 1)..r : out[j] # "\n"
        /\ \A j \in q..r : out[j] = "9"
        /\ out[r + 1] = "%"

C9_ParseErrorIsFatal ==
    [][/\ (pc = "_get_total_coverage_match" /\ ~HasTotalRow(stdout)) =>
              /\ exc'.type = "RuntimeError"
              /\ pc' = "raise"
              /\ log' = log /\ files' = files
       /\ (pc = "raise" /\ exc.type = "RuntimeError") =>
              /\ pc' = "done"
              /\ exitCode' # 0
              /\ log' = log /\ files' = files
       /\ (pc = "done" /\ exc.type = "RuntimeError") => UNCHANGED vars]_vars

\* the report over the combined data file had no TOTAL row and the process
\* ended in failure
C9_Witness ==
    /\ pc = "done"
    /\ exc.type = "RuntimeError"
    /\ exitCode # 0
    /\ log[Len(log)].w = "coverage report"
    /\ log[Len(log)].a = <<"coverage", ".dat">>

(***************************************************************************)
(* C10: the combine step is given exactly the copies of the categories     *)
(* whose data file was present, in category order, each made before the    *)
(* step, and never the data file of a category that was present; after a   *)
(* successful aggregation the data file of every category that was present *)
(* still exists with the content it had.                                   *)
(***************************************************************************)
IsCopy(e) == e.k = "copy"

C10_CombineConsumesOnlyCopies ==
    /\ \A i \in Runs : log[i].w = "coverage combine" =>
          LET copies == SelectSeq(SubSeq(log, 1, i), IsCopy)
          IN  /\ log[i].a = join([n \in DOMAIN copies |-> copies[n].a])
              /\ \A m \in DOMAIN test_types :
                    (\E n \in DOMAIN copies :
                          copies[n].a = <<"coverage-">> \o test_types[m] \o <<"-copy", ".dat">>) =>
                        \A n \in DOMAIN copies :
                            copies[n].a # <<"coverage-">> \o test_types[m] \o <<".dat">>
    /\ (pc = "done" /\ exitCode = 0) =>
          \A m \in DOMAIN test_types :
              (\E i \in DOMAIN log :
                    log[i].k = "copy" /\ log[i].a = <<"coverage-">> \o test_types[m] \o <<"-copy", ".dat">>) =>
                  /\ exists(<<"coverage-">> \o test_types[m] \o <<".dat">>)
                  /\ files[<<"coverage-">> \o test_types[m] \o <<".dat">>] = <<"data">> \o test_types[m]

(***************************************************************************)
(* C11: the combined percentage that coverage_report prints is taken from  *)
(* the output of `coverage report` run over the combined data file: the    *)
(* line "Total coverage" comes right after a successful report over        *)
(* coverage.dat, which comes right after the combine and html steps, and   *)
(* what is printed is a percentage token of a TOTAL row of that output; no *)
(* per-category percentage enters it.                                      *)
(***************************************************************************)
\* p is a percentage token that follows TOTAL on one line of out
TokenOfTotalRow(out, p) ==
    \E i, q, r \in DOMAIN out :
        /\ i < q /\ q < r
        /\ out[i] = "TOTAL"
        /\ \A j \in (i + 1)..r : out[j] # "\n"
        /\ \A j \in q..(r - 1) : out[j] = "9"
        /\ out[r] = "%"
        /\ p = SubSeq(out, q, r)

C12_ZeroInputsIsFatal ==
    /\ \A i \in Runs : log[i].w = "coverage combine" => log[i].a # <<>>
    /\ (pc = "done" /\ cmd \in {"coverage_report", "test_all"}
            /\ (\E i \in DOMAIN log : log[i].k = "print_header" /\ log[i].w = "coverage_report")
            /\ (\A i \in DOMAIN log : ~IsCopy(log[i]))) =>
          /\ exitCode # 0
          /\ \A i \in DOMAIN log : ~(log[i].k = "print" /\ log[i].w = "total")
          /\ \A i \in Runs : log[i].w = "coverage html" => log[i].rc # 0

(***************************************************************************)
(* C13: coverage_open with no index.html in the coverage report directory  *)
(* prints an error, exits with a non-zero status and never opens the       *)
(* browser; the browser is opened only when the index file exists, and on  *)
(* that file.                                                              *)
(***************************************************************************)
Opened == {i \in DOMAIN log : log[i].k = "webbrowser.open"}

C13_OpenOnlyExistingReport ==
    /\ \A i \in Opened : exists(report_index) /\ log[i].a = report_index
    /\ (cmd = "coverage_open" /\ pc = "done" /\ ~exists(report_index)) =>
          /\ exitCode # 0
          /\ Opened = {}
          /\ \E i \in DOMAIN log : log[i].k = "secho" /\ log[i].w = "coverage_open"
    /\ (cmd = "coverage_open" /\ pc = "done" /\ exists(report_index)) =>
          /\ exitCode = 0
          /\ Opened # {}

\* coverage_open has ended without an index file to open
C13_Witness ==
    /\ cmd = "coverage_open" /\ pc = "done"
    /\ ~exists(report_index)
    /\ exitCode = 1

(***************************************************************************)
(* C14: in every lint check, test run and coverage aggregation, the        *)
(* reports directory is ensured before the first invocation of an external *)
(* tool that writes there: every writing step in the log comes after the   *)
(* ensure step of the same invocation of the function that makes it, and   *)
(* no file is written while the directory is missing.                      *)
(***************************************************************************)
\* positions of the steps that write into the reports directory (`coverage
\* report` only reads)
Writers ==
    {i \in DOMAIN log : \/ log[i].k = "run" /\ log[i].w # "coverage report"
                        \/ log[i].k = "copy"}

\* the function that makes the step
Owner(e) == IF e.w \in {"coverage combine", "coverage html"} THEN "coverage_report" ELSE e.w

C14_EnsureBeforeWrite ==
    /\ [](\A i \in Writers :
            \E j \in 1..(i - 1) :
                /\ log[j] = Ev("ensure_reports_dir", Owner(log[i]), <<>>, 0)
                /\ \A m \in (j + 1)..(i - 1) : log[m].k \notin {"forward", "print_header"})
    /\ [](DOMAIN files # {} => reports_directory)
    /\ [][files' # files => reports_directory]_vars

\* a whole test pipeline has run: the tests wrote their data, the aggregation
\* copied a data file and ran combine
C14_Witness ==
    /\ cmd = "test_all" /\ pc = "done"
    /\ \E i, j, m \in Writers :
          /\ i < j /\ j < m
          /\ log[i].w = "_run_tests"
          /\ log[j].k = "copy"
          /\ log[m].w = "coverage combine" /\ log[m].rc = 0

(***************************************************************************)
(* C16: in test_all a failing test run aborts the pipeline: nothing is     *)
(* started after it and the exit status is non-zero.  When the unit tests  *)
(* fail, the integration tests and the coverage aggregation are never      *)
(* started; when the integration tests fail, the coverage aggregation is   *)
(* never started.                                                          *)
(***************************************************************************)
FailedTests == {i \in Runs : log[i].w = "_run_tests" /\ log[i].rc # 0}

C16_TestFailureAborts ==
    cmd = "test_all" =>
        \A i \in FailedTests :
            /\ i = Len(log)
            /\ pc \in {"raise", "done"}
            /\ pc = "done" => exitCode # 0
            /\ log[i].a = <<"unit">> =>
                  Started("test_integration") = {} /\ Started("coverage_report") = {}
            /\ log[i].a = <<"integration">> => Started("coverage_report") = {}

\* test_all has ended on failing unit tests
C16_Witness ==
    /\ cmd = "test_all" /\ pc = "done"
    /\ \E i \in FailedTests : log[i].a = <<"unit">>

(***************************************************************************)
(* C18: for every configured list of distinct category names, the          *)
(* temporary copy made of a category's data file is at the data file's     *)
(* name with ".dat" replaced by "-copy.dat", and that path is neither the  *)
(* data file of a configured category nor the copy of another category.    *)
(***************************************************************************)
Copies == {i \in DOMAIN log : IsCopy(log[i])}

C18_CopyPathsAreFresh ==
    \A i \in Copies :
        /\ \E m \in DOMAIN test_types :
              log[i].a = <<"coverage-">> \o test_types[m] \o <<"-copy", ".dat">>
        /\ \A m \in DOMAIN test_types : log[i].a # coverage_dat(test_types[m])
        /\ \A j \in Copies : j # i => log[j].a # log[i].a

(***************************************************************************)
(* C17: the static-analysis check is two sub-runs of pylint, the source    *)
(* tree first and the tests tree second, each with its own configuration   *)
(* file and its own report file.  The tests sub-run starts only after the  *)
(* source sub-run has succeeded; when the source sub-run fails its report  *)
(* is printed (when there is one) and the tests sub-run is never started.  *)
(***************************************************************************)
SubRuns(w) == {i \in Runs : log[i].w = w}

\* positions where something of the tests sub-run happens
TestsSubRun == {j \in DOMAIN log : log[j].w = "run_pylint:tests"}

C17_PylintSourceThenTests ==
    /\ \A i \in SubRuns("run_pylint:source") :
          /\ log[i].a = <<"pylint-report.log">>
          /\ log[i - 1] = Ev("ctx.run", "run_pylint:source",
                             <<"pylint", "--rcfile", "root_directory", ".pylintrc", "source_directory">>, 0)
    /\ \A i \in SubRuns("run_pylint:tests") :
          /\ log[i].a = <<"pylint-report-tests.log">>
          /\ log[i - 1] = Ev("ctx.run", "run_pylint:tests",
                             <<"pylint", "--rcfile", "tests_directory", ".pylintrc", "tests_directory">>, 0)
    /\ \A j \in TestsSubRun :
          \E i \in SubRuns("run_pylint:source") :
              /\ i < j
              /\ log[i].rc = 0
              /\ \A m \in i..j : ~IsForward(log[m])
    /\ \A i \in SubRuns("run_pylint:source") : log[i].rc # 0 =>
          /\ TestsSubRun = {}
          /\ pc \in {"run_pylint_except", "raise", "done"}
          /\ pc # "run_pylint_except" =>
                IF exists(report_path(1))
                THEN i + 1 = Len(log)
                        /\ log[i + 1] = Ev("print", "run_pylint:source", files[report_path(1)], 0)
                ELSE i = Len(log)
          /\ pc = "done" => exitCode # 0

\* both sub-runs were made, the second after the first succeeded
C17_Witness ==
    /\ SubRuns("run_pylint:source") # {}
    /\ SubRuns("run_pylint:tests") # {}
    /\ pc = "done"

(***************************************************************************)
(* C15: running lint twice on an unchanged source tree, the tools being    *)
(* deterministic, ends with the same report contents and the same exit     *)
(* code: a report is overwritten by the second run, never added to.        *)
(***************************************************************************)
C15_LintTwiceSameReports ==
    (cmd = "lint" /\ first # <<>> /\ pc = "done") =>
        /\ files = first.files
        /\ exitCode = first.exitCode

\* the second invocation has ended, all checks made, and a tool had messages
\* to report
C15_Witness ==
    /\ cmd = "lint" /\ first # <<>> /\ pc = "done"
    /\ exitCode = 0
    /\ \E w \in DOMAIN answers : answers[w].c = <<"messages">>
    /\ LintReports \subseteq DOMAIN files

====
